---- MODULE Spec2Model ----
(***************************************************************************)
(* A model of peakrdl.ipxact.exporter.IPXACTExporter: the translation of a *)
(* SystemRDL node tree into an IP-XACT document.                           *)
(*                                                                         *)
(* The exporter object (standard, doc, _max_width, msg) and the output     *)
(* file are the state.  One export call is a depth-first traversal; each   *)
(* method call of the traversal (export, add_addressBlock,                 *)
(* add_registerFile, add_register, the return of a container, the final    *)
(* write) is one action, and the call stack is a variable.                 *)
(*                                                                         *)
(* The document is kept as the sequence of its elements in document order  *)
(* (the order minidom serialises them), each with its nesting depth.       *)
(* Elements that no property here reads (baseAddress, range,               *)
(* addressOffset, access, enumeratedValues, ...) are left out.             *)
(***************************************************************************)
EXTENDS Integers, Sequences, FiniteSets

\* ------------------------------------------------------------------------
\* Bounds of the model
\* ------------------------------------------------------------------------

\* children of the top node in the enumerated source trees
MaxKids == 2

\* nesting levels of containers below the top node in the deep source trees
MaxDepth == 2

\* fields of a register in the field-centred source trees
MaxFields == 2

\* export calls made on one exporter instance
MaxExports == 3

\* ------------------------------------------------------------------------
\* Optional values: Python's None and a present value
\* ------------------------------------------------------------------------

None == << >>

Some(v) == << v >>

\* ------------------------------------------------------------------------
\* Standard (enum.IntEnum)
\* ------------------------------------------------------------------------

IEEE_1685_2009 == 2009

IEEE_1685_2014 == 2014

Standards == {IEEE_1685_2009, IEEE_1685_2014}

\* ------------------------------------------------------------------------
\* Integer helpers for Python's <<, | and & on non-negative integers
\* ------------------------------------------------------------------------

RECURSIVE Pow2(_)
Pow2(n) == IF n = 0 THEN 1 ELSE 2 * Pow2(n - 1)

\* a << n
Shl(a, n) == a * Pow2(n)

\* a >> n
Shr(a, n) == a \div Pow2(n)

RECURSIVE BitOr(_, _)
BitOr(a, b) ==
    IF a = 0 THEN b
    ELSE IF b = 0 THEN a
    ELSE (IF (a % 2 = 1) \/ (b % 2 = 1) THEN 1 ELSE 0)
         + 2 * BitOr(a \div 2, b \div 2)

RECURSIVE BitAnd(_, _)
BitAnd(a, b) ==
    IF a = 0 \/ b = 0 THEN 0
    ELSE (IF (a % 2 = 1) /\ (b % 2 = 1) THEN 1 ELSE 0)
         + 2 * BitAnd(a \div 2, b \div 2)

\* "%x" % v : the hexadecimal digits of v, most significant first
RECURSIVE HexDigits(_)
HexDigits(v) ==
    IF v < 16 THEN << v >> ELSE Append(HexDigits(v \div 16), v % 16)

\* the integer a digit string of "%x" denotes
RECURSIVE HexValue(_)
HexValue(ds) ==
    IF Len(ds) = 0 THEN 0
    ELSE 16 * HexValue(SubSeq(ds, 1, Len(ds) - 1)) + ds[Len(ds)]

\* ------------------------------------------------------------------------
\* Source nodes (systemrdl.node): the read-only input of the exporter
\* ------------------------------------------------------------------------

InstNames == << "a", "b", "c", "d", "e", "f", "g", "h" >>

\* a FieldNode
Field(lsb, width, reset, sw) ==
    [inst_name |-> "", ispresent |-> TRUE, lsb |-> lsb, width |-> width,
     reset |-> reset, sw |-> sw]

\* a Node of any kind; properties a kind does not have are 0 or empty.
\* name is the RDL "name" property (None when not assigned).
Node(kind, dims, stride, regwidth, memwidth, fields, children) ==
    [kind |-> kind, inst_name |-> "", name |-> None, ispresent |-> TRUE,
     bridge |-> FALSE, array_dimensions |-> dims, array_stride |-> stride,
     regwidth |-> regwidth, memwidth |-> memwidth,
     fields |-> fields, children |-> children]

\* instance names are unique among siblings: name the members by position
Named(seq) == [i \in 1..Len(seq) |-> [seq[i] EXCEPT !.inst_name = InstNames[i]]]

is_array(node) == node.array_dimensions # << >>

IsRegNode(node) == node.kind = "reg"

IsMemNode(node) == node.kind = "mem"

IsAddrmapNode(node) == node.kind = "addrmap"

IsRegfileNode(node) == node.kind = "regfile"

\* AddressableNode: addrmap, regfile, mem, reg (a signal is not)
IsAddressableNode(node) == node.kind \in {"addrmap", "regfile", "mem", "reg"}

\* node.children(skip_not_present=False): every child instance, in source order
Children(node) == node.children

\* node.fields(skip_not_present=False)
Fields(node) == node.fields

\* ------------------------------------------------------------------------
\* The source trees the exports are drawn from.  Every tree is one the
\* SystemRDL compiler can hand over: a regfile holds registers and regfiles,
\* a mem holds (virtual) registers no wider than its memwidth, a register
\* has at least one field, a field lies inside its register, its reset fits
\* its width, and two fields overlap only as a read-only/write-only pair.
\* ------------------------------------------------------------------------

\* all sequences over S of length lo..hi
SeqsOf(S, lo, hi) == UNION { [1..k -> S] : k \in lo..hi }

Signal == Node("signal", << >>, 0, 0, 0, << >>, << >>)

DefaultFields == << Field(0, 1, None, "rw") >>

Reg(regwidth, dims, stride, fields) ==
    Node("reg", dims, stride, regwidth, 0, Named(fields), << >>)

\* container attributes: array dimensions, stride, presence
Plain == [dims |-> << >>, stride |-> 0, present |-> TRUE]

Arrayed == [dims |-> << 2 >>, stride |-> 16, present |-> TRUE]

Absent == [dims |-> << >>, stride |-> 0, present |-> FALSE]

Cont(kind, at, memwidth, kids) ==
    [Node(kind, at.dims, at.stride, 0, memwidth, << >>, Named(kids))
        EXCEPT !.ispresent = at.present]

\* the nodes a top-level child is drawn from: registers, a signal,
\* regfiles and addrmaps of one register, mems with and without a
\* (virtual) register
Alphabet(Rs, InnerRs, MemRs, Ats, MemWs) ==
    Rs \cup {Signal}
    \cup { Cont(k, at, 0, << r >>) :
             k \in {"regfile", "addrmap"}, at \in Ats, r \in InnerRs }
    \cup { Cont("mem", at, mw, << >>) : at \in Ats, mw \in MemWs }
    \cup UNION { { Cont("mem", at, mw, << r >>) :
                     r \in { x \in MemRs : x.regwidth <= mw } } :
                 at \in Ats, mw \in MemWs }

Top(at, kids) ==
    [Cont("addrmap", at, 0, kids)
        EXCEPT !.inst_name = "top", !.name = Some("Top map")]

Tops(A, Ats) == { Top(at, kids) : at \in Ats, kids \in SeqsOf(A, 0, MaxKids) }

\* registers of different widths, at the top and one level down
RegsW == { Reg(w, << >>, 0, DefaultFields) : w \in {16, 64} }

WidthTrees == Tops(Alphabet(RegsW, RegsW, RegsW, {Plain}, {16, 64}), {Plain})

\* arrays: a register array whose stride is its size (4 bytes), one whose
\* stride is larger (8 bytes), arrayed containers
Reg32 == Reg(32, << >>, 0, DefaultFields)

RegArrayOk == Reg(32, << 2 >>, 4, DefaultFields)

RegArrayBad == Reg(32, << 2 >>, 8, DefaultFields)

ArrayTrees ==
    Tops(Alphabet({Reg32, RegArrayOk, RegArrayBad}, {Reg32, RegArrayBad}, {},
                  {Plain, Arrayed}, {32}), {Plain})

\* presence: absent registers, fields and containers
RegPresentFieldAbsent ==
    [Reg32 EXCEPT !.fields = Named(<< [DefaultFields[1] EXCEPT !.ispresent = FALSE] >>)]

RegAbsent == [Reg32 EXCEPT !.ispresent = FALSE]

PresenceTrees ==
    Tops(Alphabet({Reg32, RegAbsent, RegPresentFieldAbsent},
                  {RegAbsent}, {RegAbsent},
                  {Plain, Absent}, {32}), {Plain, Absent})

\* depth: a chain of containers, each with registers before and after the
\* nested container
Around(x) ==
    { << x >> }
    \cup { << r, x >> : r \in RegsW } \cup { << x, r >> : r \in RegsW }
    \cup UNION { { << r, x, q >> : q \in RegsW \ {r} } : r \in RegsW }

RECURSIVE Deep(_)
Deep(d) ==
    IF d = 1
    THEN { Cont(k, Plain, 0, << r >>) : k \in {"regfile", "addrmap"}, r \in RegsW }
         \cup { Cont("mem", Plain, 64, kids) : kids \in SeqsOf(RegsW, 0, 1) }
    ELSE { Cont("regfile", Plain, 0, kids) :
             kids \in UNION { Around(x) : x \in { y \in Deep(d - 1) : IsRegfileNode(y) } } }
         \cup { Cont("addrmap", Plain, 0, kids) :
                  kids \in UNION { Around(x) : x \in Deep(d - 1) } }

DeepTrees == { Top(Plain, kids) : kids \in UNION { Around(x) : x \in Deep(MaxDepth) } }

\* fields: one register whose fields vary in position, width, reset
FieldLsbs == {0, 1, 4}

FieldTemplates ==
    { Field(l, w, r, s) :
        l \in FieldLsbs, w \in {1, 2},
        r \in {None} \cup { Some(v) : v \in 0..3 }, s \in {"rw", "r", "w"} }

Overlap(f, g) == f.lsb < g.lsb + g.width /\ g.lsb < f.lsb + f.width

\* what the compiler's validation lets through; sw is "rw" unless it is what
\* makes an overlap legal
ValidFields(fs) ==
    /\ \A i \in 1..Len(fs) :
         /\ fs[i].reset # None => fs[i].reset[1] < Pow2(fs[i].width)
         /\ fs[i].sw # "rw" => \E j \in 1..Len(fs) : j # i /\ Overlap(fs[i], fs[j])
    /\ \A i \in 1..Len(fs) : \A j \in 1..Len(fs) :
         i < j => /\ fs[i].lsb <= fs[j].lsb
                  /\ Overlap(fs[i], fs[j]) => {fs[i].sw, fs[j].sw} = {"r", "w"}

FieldLists == { fs \in SeqsOf(FieldTemplates, 1, MaxFields) : ValidFields(fs) }

\* a register whose first field is not present and declares a reset
RegAbsentFieldReset ==
    Reg(32, << >>, 0,
        << [Field(0, 2, Some(2), "rw") EXCEPT !.ispresent = FALSE],
           Field(4, 1, Some(1), "rw") >>)

FieldTrees ==
    { Top(Plain, << Reg(32, << >>, 0, fs) >>) : fs \in FieldLists }
        \cup { Top(Plain, << RegAbsentFieldReset >>) }

\* a raw memory as the top node
MemTrees ==
    { [Cont("mem", Plain, mw, kids)
          EXCEPT !.inst_name = "top", !.name = Some("Top mem")] :
        mw \in {64}, kids \in SeqsOf(RegsW, 0, MaxKids) }

\* an addrmap that carries the bridge property
BridgeTrees ==
    { [Top(Plain, << x >>) EXCEPT !.bridge = TRUE] :
        x \in Alphabet({Reg32}, {Reg32}, {Reg32}, {Plain}, {32}) }

Trees ==
    WidthTrees \cup ArrayTrees \cup PresenceTrees \cup DeepTrees
    \cup FieldTrees \cup MemTrees \cup BridgeTrees

\* the trees exported when one exporter instance is used for several exports
ReuseTrees ==
    { Top(Plain, kids) :
        kids \in SeqsOf({ Reg(16, << >>, 0, DefaultFields), RegArrayBad,
                          Cont("regfile", Plain, 0, << Reg(64, << >>, 0, DefaultFields) >>),
                          Cont("mem", Plain, 64, << >>),
                          Cont("mem", Arrayed, 64, << >>) }, 1, 1) }

\* a RootNode: its top is its only child
Root(top) ==
    [Node("root", << >>, 0, 0, 0, << >>, << top >>) EXCEPT !.inst_name = "$root"]

\* nodes export() does not accept
BadNodes == { Reg32, Cont("regfile", Plain, 0, << Reg32 >>), Signal }

\* ------------------------------------------------------------------------
\* State
\* ------------------------------------------------------------------------

VARIABLES
    pc,         \* "new": no exporter yet; "idle": between calls; "export": in export()
    reuse,      \* whether the instance is used for more than one export call
    calls,      \* export calls made so far
    standard,   \* self.standard (0 before construction)
    doc,        \* self.doc: None, or the document under construction / last built
    max_width,  \* self._max_width
    msg,        \* the messages the message sink (node.env.msg) has received
    file,       \* the content of the file at `path`: None until written
    exc,        \* how the last call ended: "none", "TypeError", "RDLCompileError"
    stack,      \* the call stack of the running export, innermost frame last
    call,       \* the arguments of the current or last export call
    results     \* per finished export call: its arguments and what it wrote

vars == << pc, reuse, calls, standard, doc, max_width, msg, file, exc, stack,
           call, results >>

\* ------------------------------------------------------------------------
\* Pure parts of the exporter
\* ------------------------------------------------------------------------

\* self.ns, set by __init__
ns == IF standard >= IEEE_1685_2014 THEN "ipxact:" ELSE "spirit:"

hex_str(v) ==
    IF standard >= IEEE_1685_2014
    THEN [prefix |-> "'h", digits |-> HexDigits(v)]
    ELSE [prefix |-> "0x", digits |-> HexDigits(v)]

get_name(node) == node.inst_name

\* the name and displayName elements add_nameGroup appends (description is
\* handled like displayName and left out)
add_nameGroup(name, displayName) == [name |-> name, displayName |-> displayName]

\* a slip in the isPresent checks: the standard is not looked at
isPresent_any_standard(node) ==
    IF ~node.ispresent THEN Some("0") ELSE None

\* the isPresent element: Some("0") when it is emitted
isPresent(node) ==
    IF standard >= IEEE_1685_2014 /\ ~node.ispresent THEN Some("0") ELSE None

\* a new element of the document, at nesting depth `depth` below the memoryMap
Element(tag, depth, node) ==
    [tag |-> tag, depth |-> depth,
     name |-> add_nameGroup(get_name(node), node.name).name,
     displayName |-> add_nameGroup(get_name(node), node.name).displayName,
     isPresent |-> isPresent(node),
     dim |-> << >>, size |-> None, width |-> None, usage |-> None,
     reset |-> None, fields |-> << >>]

\* a slip in export: arrays among the children are not looked at
explode_arrays_too(node) ==
    /\ IsAddrmapNode(node)
    /\ LET kids == SelectSeq(Children(node), IsAddressableNode)
       IN  /\ kids # << >>
           /\ \A i \in 1..Len(kids) : IsAddrmapNode(kids[i]) \/ IsMemNode(kids[i])

\* export(): whether the top node is exploded into one addressBlock per child
explode(node) ==
    /\ IsAddrmapNode(node)
    /\ LET kids == SelectSeq(Children(node), IsAddressableNode)
           addrblockable(c) == (IsAddrmapNode(c) \/ IsMemNode(c)) /\ ~is_array(c)
           addrblockable_children ==
               Cardinality({ i \in 1..Len(kids) : addrblockable(kids[i]) })
           non_addrblockable_children ==
               Cardinality({ i \in 1..Len(kids) : ~addrblockable(kids[i]) })
       IN  non_addrblockable_children = 0 /\ addrblockable_children >= 1

\* the nodes export() hands to add_addressBlock, in call order
export_blocks(node) ==
    IF explode(node) THEN SelectSeq(Children(node), IsAddressableNode)
    ELSE << node >>

\* a slip in add_registerData: a mem child is rendered like a regfile
IsRegfileLike_or_mem(node) ==
    IsAddrmapNode(node) \/ IsRegfileNode(node) \/ IsMemNode(node)

IsRegfileLike(node) == IsAddrmapNode(node) \/ IsRegfileNode(node)

IsRegfileLikeOrMem(node) == IsRegfileLike(node) \/ IsMemNode(node)

IsRegisterData(node) == IsRegNode(node) \/ IsRegfileLikeOrMem(node)

\* a slip in add_registerData: one pass in source order in both standards
add_registerData_one_pass(node) == SelectSeq(Children(node), IsRegisterData)

\* add_registerData(): the children it dispatches on, in dispatch order
add_registerData(node) ==
    IF standard = IEEE_1685_2014
    THEN SelectSeq(Children(node), IsRegisterData)
    ELSE SelectSeq(Children(node), IsRegNode)
         \o SelectSeq(Children(node), IsRegfileLikeOrMem)

\* a slip in add_register: the stride is compared with the width in bits
stride_error_in_bits(node) ==
    is_array(node) /\ node.array_stride # node.regwidth

\* add_register(): the check of a register array's stride
stride_error(node) ==
    is_array(node) /\ node.array_stride * 8 # node.regwidth

\* a slip in add_register: the last register's width instead of the maximum
update_max_width_last(node) == Some(node.regwidth)

\* a slip in add_register: the first register's width is kept
update_max_width_first(node) ==
    IF max_width = None THEN Some(node.regwidth) ELSE max_width

\* add_register(): self._max_width after the register
update_max_width(node) ==
    IF max_width = None THEN Some(node.regwidth)
    ELSE Some(IF node.regwidth > max_width[1] THEN node.regwidth ELSE max_width[1])

\* a slip in add_register: the field's reset is not shifted to its lsb
RECURSIVE aggregate_reset_unshifted(_, _, _)
aggregate_reset_unshifted(fields, reset, mask) ==
    IF fields = << >> THEN [reset |-> reset, mask |-> mask]
    ELSE LET field == Head(fields)
             field_mask == Shl(Pow2(field.width) - 1, field.lsb)
         IN  IF field.reset # None
             THEN aggregate_reset_unshifted(Tail(fields),
                      BitOr(reset, BitAnd(field.reset[1], field_mask)),
                      BitOr(mask, field_mask))
             ELSE aggregate_reset_unshifted(Tail(fields), reset, mask)

\* add_register(): the reset value and mask aggregated over the fields
RECURSIVE aggregate_reset(_, _, _)
aggregate_reset(fields, reset, mask) ==
    IF fields = << >> THEN [reset |-> reset, mask |-> mask]
    ELSE LET field == Head(fields)
             field_mask == Shl(Pow2(field.width) - 1, field.lsb)
         IN  IF field.reset # None
             THEN aggregate_reset(Tail(fields),
                      BitOr(reset, BitAnd(Shl(field.reset[1], field.lsb), field_mask)),
                      BitOr(mask, field_mask))
             ELSE aggregate_reset(Tail(fields), reset, mask)

\* add_register(): the register-level reset element of the 2009 standard
register_reset(node) ==
    IF standard <= IEEE_1685_2009
    THEN LET agg == aggregate_reset(Fields(node), 0, 0)
         IN  IF agg.mask # 0
             THEN Some([value |-> hex_str(agg.reset), mask |-> hex_str(agg.mask)])
             ELSE None
    ELSE None

\* a slip in add_field: the field-level reset is rendered in every standard
field_reset_any_standard(node) ==
    IF node.reset # None THEN Some(hex_str(node.reset[1])) ELSE None

\* add_field(): the field-level reset element of the 2014 standard
field_reset(node) ==
    IF standard >= IEEE_1685_2014 /\ node.reset # None
    THEN Some(hex_str(node.reset[1]))
    ELSE None

add_field(node) ==
    [name |-> add_nameGroup(get_name(node), None).name,
     isPresent |-> isPresent(node),
     bitOffset |-> node.lsb,
     reset |-> field_reset(node),
     bitWidth |-> node.width]

\* a slip in add_addressBlock: the accumulator starts at the default width
initial_max_width_default == Some(32)

\* a slip in add_addressBlock: self._max_width is not reset
stale_max_width == max_width

\* add_addressBlock(): self._max_width at the start of every address block
initial_max_width == None

\* add_addressBlock(): the text of the width element, from self._max_width
\* after the subtree
resolved_max_width(node) ==
    IF IsMemNode(node) /\ max_width = None THEN Some(node.memwidth) ELSE max_width

width_text(node) ==
    IF resolved_max_width(node) # None THEN resolved_max_width(node)[1] ELSE 32

\* ------------------------------------------------------------------------
\* Initial state and actions
\* ------------------------------------------------------------------------

\* the keyword arguments of an export call
Kwargs(component_name, other) == [component_name |-> component_name, other |-> other]

\* the arguments of a call: of __init__ (no node) or of export
Call(fn, node, kwargs) == [fn |-> fn, node |-> node, kwargs |-> kwargs]

Frame(fn, node, at, todo, path) ==
    [fn |-> fn, node |-> node, at |-> at, todo |-> todo, path |-> path]

top_frame == stack[Len(stack)]

\* the stack with the innermost frame replaced
WithTop(frame) == [stack EXCEPT ![Len(stack)] = frame]

\* the innermost frame, its first pending child taken
Advanced == [top_frame EXCEPT !.todo = Tail(top_frame.todo)]

Warning(text, path) == [severity |-> "warning", text |-> text, path |-> path]

Fatal(text, path) == [severity |-> "fatal", text |-> text, path |-> path]

\* the record of a finished export call
Result(c, out) == [node |-> c.node, kwargs |-> c.kwargs, out |-> out]

InitCommon ==
    /\ pc = "new"
    /\ calls = 0
    /\ standard = 0
    /\ doc = None
    /\ max_width = None
    /\ msg = << >>
    /\ file = None
    /\ exc = "none"
    /\ stack = << >>
    /\ call = Call("none", None, None)
    /\ results = << >>

\* one export per exporter instance, over all the trees
Init == InitCommon /\ reuse = FALSE

\* several exports on one exporter instance
InitReuse == InitCommon /\ reuse = TRUE

\* the keyword arguments __init__ is given: the keys it knows, and any others
ConstructKwargs ==
    { [standard |-> st, other |-> o] :
        st \in {None} \cup { Some(x) : x \in Standards }, o \in { {}, {"bogus"} } }

\* the arguments an export call is given: every tree; some trees as the
\* RootNode above them, and with a component_name; and the calls export()
\* rejects: a node of a wrong kind, an unknown keyword
Calls ==
    LET trees == IF reuse THEN ReuseTrees ELSE Trees
        roots == IF reuse THEN { Root(Top(Plain, << Reg32 >>)) }
                 ELSE { Root(t) : t \in BridgeTrees }
        named == IF reuse THEN { Top(Plain, << Reg32 >>) }
                 ELSE BridgeTrees \cup MemTrees \cup roots
        bad   == BadNodes
    IN  { Call("export", n, Kwargs(None, {})) : n \in trees \cup roots \cup bad }
        \cup { Call("export", n, Kwargs(Some("comp"), {})) : n \in named }
        \cup { Call("export", Top(Plain, << Reg32 >>), Kwargs(None, {"bogus"})) }

\* IPXACTExporter(**kwargs)
Construct(kwargs) ==
    /\ pc = "new"
    /\ exc = "none"
    /\ IF kwargs.other # {}
       THEN /\ exc' = "TypeError"
            /\ UNCHANGED << pc, standard >>
       ELSE /\ standard' = IF kwargs.standard = None THEN IEEE_1685_2014
                           ELSE kwargs.standard[1]
            /\ pc' = "idle"
            /\ UNCHANGED exc
    /\ call' = Call("__init__", None, kwargs)
    /\ UNCHANGED << reuse, calls, doc, max_width, msg, file, stack, results >>

\* an export call can be made: the exporter exists and is not in a call
CanExport ==
    /\ pc = "idle"
    /\ reuse \/ calls = 0
    /\ calls < MaxExports

\* a slip in export: the kind of the node is not checked
raises_TypeError_kwargs_only(node, kwargs) == kwargs.other # {}

\* export(): the calls it rejects, given the node below a RootNode: stray
\* keyword arguments, or a node that is neither an addrmap nor a mem
raises_TypeError(node, kwargs) ==
    kwargs.other # {} \/ ~(IsAddrmapNode(node) \/ IsMemNode(node))

\* export(node, path, **kwargs) up to the first add_addressBlock call
export(node0, kwargs) ==
    /\ CanExport
    /\ calls' = calls + 1
    /\ call' = Call("export", node0, kwargs)
    /\ LET node == IF node0.kind = "root" THEN node0.children[1] ELSE node0
           component_name == kwargs.component_name
       IN  IF raises_TypeError(node, kwargs)
           THEN /\ exc' = "TypeError"
                /\ results' = Append(results, Result(Call("export", node0, kwargs), None))
                /\ UNCHANGED << pc, doc, max_width, msg, file, stack >>
           ELSE /\ msg' = IF IsAddrmapNode(node) /\ node.bridge
                          THEN Append(msg, Warning("bridge", << node.inst_name >>))
                          ELSE msg
                /\ doc' = [ns |-> ns,
                           name |-> IF component_name # None /\ component_name[1] # ""
                                    THEN component_name[1] ELSE node.inst_name,
                           memoryMap |-> IF explode(node)
                                         THEN add_nameGroup(node.inst_name, node.name)
                                         ELSE add_nameGroup(node.inst_name, None),
                           els |-> << >>]
                /\ stack' = << Frame("export", node, 0, export_blocks(node),
                                     IF explode(node) THEN << node.inst_name >>
                                     ELSE << >>) >>
                /\ pc' = "export"
                /\ exc' = "none"
                /\ UNCHANGED << max_width, file, results >>
    /\ UNCHANGED << reuse, standard >>

\* add_addressBlock(parent, node) up to its add_registerData call
add_addressBlock ==
    /\ pc = "export"
    /\ top_frame.fn = "export"
    /\ top_frame.todo # << >>
    /\ LET node == Head(top_frame.todo)
           addressBlock ==
               [Element("addressBlock", Len(stack), node)
                   EXCEPT !.usage = IF IsMemNode(node) THEN Some("memory") ELSE None]
       IN  /\ max_width' = initial_max_width
           /\ doc' = [doc EXCEPT !.els = Append(doc.els, addressBlock)]
           /\ stack' = Append(WithTop(Advanced),
                  Frame("add_addressBlock", node, Len(doc.els) + 1,
                        add_registerData(node),
                        IF top_frame.path = << >> THEN << node.inst_name >>
                        ELSE Append(top_frame.path, node.inst_name)))
    /\ UNCHANGED << pc, reuse, calls, standard, msg, file, exc, call, results >>

\* add_registerFile(parent, node) up to its add_registerData call
add_registerFile ==
    /\ pc = "export"
    /\ top_frame.fn \in {"add_addressBlock", "add_registerFile"}
    /\ top_frame.todo # << >>
    /\ LET node == Head(top_frame.todo)
           registerFile ==
               [Element("registerFile", Len(stack), node)
                   EXCEPT !.dim = IF is_array(node) THEN node.array_dimensions
                                  ELSE << >>]
       IN  /\ IsRegfileLike(node)
           /\ doc' = [doc EXCEPT !.els = Append(doc.els, registerFile)]
           /\ stack' = Append(WithTop(Advanced),
                  Frame("add_registerFile", node, Len(doc.els) + 1,
                        add_registerData(node),
                        Append(top_frame.path, node.inst_name)))
    /\ UNCHANGED << pc, reuse, calls, standard, max_width, msg, file, exc, call,
                    results >>

\* add_register(parent, node), with its add_field calls
add_register ==
    /\ pc = "export"
    /\ top_frame.fn \in {"add_addressBlock", "add_registerFile"}
    /\ top_frame.todo # << >>
    /\ LET node == Head(top_frame.todo)
           register == Element("register", Len(stack), node)
       IN  /\ IsRegNode(node)
           /\ IF stride_error(node)
              THEN \* self.msg.fatal() raises: the export call ends here
                   /\ doc' = [doc EXCEPT !.els = Append(doc.els, register)]
                   /\ msg' = Append(msg, Fatal("stride",
                                 Append(top_frame.path, node.inst_name)))
                   /\ exc' = "RDLCompileError"
                   /\ stack' = << >>
                   /\ pc' = "idle"
                   /\ results' = Append(results, Result(call, None))
                   /\ UNCHANGED max_width
              ELSE /\ doc' = [doc EXCEPT !.els = Append(doc.els,
                                 [register EXCEPT
                                    !.dim = IF is_array(node)
                                            THEN node.array_dimensions ELSE << >>,
                                    !.size = Some(node.regwidth),
                                    !.reset = register_reset(node),
                                    !.fields = [i \in 1..Len(Fields(node)) |->
                                                  add_field(Fields(node)[i])]])]
                   /\ max_width' = update_max_width(node)
                   /\ stack' = WithTop(Advanced)
                   /\ UNCHANGED << pc, msg, exc, results >>
    /\ UNCHANGED << reuse, calls, standard, file, call >>

\* add_registerData(): a mem child is discarded with a warning
discard_mem ==
    /\ pc = "export"
    /\ top_frame.fn \in {"add_addressBlock", "add_registerFile"}
    /\ top_frame.todo # << >>
    /\ LET node == Head(top_frame.todo)
       IN  /\ IsMemNode(node)
           /\ msg' = Append(msg, Warning("nested mem",
                         Append(top_frame.path, node.inst_name)))
           /\ stack' = WithTop(Advanced)
    /\ UNCHANGED << pc, reuse, calls, standard, doc, max_width, file, exc, call,
                    results >>

\* add_registerFile() after its add_registerData call: the (empty)
\* vendorExtensions, and the return
return_registerFile ==
    /\ pc = "export"
    /\ top_frame.fn = "add_registerFile"
    /\ top_frame.todo = << >>
    /\ stack' = SubSeq(stack, 1, Len(stack) - 1)
    /\ UNCHANGED << pc, reuse, calls, standard, doc, max_width, msg, file, exc,
                    call, results >>

\* add_addressBlock() after its add_registerData call: the width is resolved
\* and written into the width element
return_addressBlock ==
    /\ pc = "export"
    /\ top_frame.fn = "add_addressBlock"
    /\ top_frame.todo = << >>
    /\ max_width' = resolved_max_width(top_frame.node)
    /\ doc' = [doc EXCEPT !.els[top_frame.at].width =
                              Some(width_text(top_frame.node))]
    /\ stack' = SubSeq(stack, 1, Len(stack) - 1)
    /\ UNCHANGED << pc, reuse, calls, standard, msg, file, exc, call, results >>

\* export() after the last add_addressBlock call: the document is written
write_xml ==
    /\ pc = "export"
    /\ top_frame.fn = "export"
    /\ top_frame.todo = << >>
    /\ file' = Some(doc)
    /\ results' = Append(results, Result(call, Some(doc)))
    /\ stack' = << >>
    /\ pc' = "idle"
    /\ UNCHANGED << reuse, calls, standard, doc, max_width, msg, exc, call >>

Next ==
    \/ pc = "new" /\ \E kwargs \in ConstructKwargs : Construct(kwargs)
    \/ CanExport /\ \E c \in Calls : export(c.node, c.kwargs)
    \/ add_addressBlock
    \/ add_registerFile
    \/ add_register
    \/ discard_mem
    \/ return_registerFile
    \/ return_addressBlock
    \/ write_xml

Spec == Init /\ [][Next]_vars

SpecReuse == InitReuse /\ [][Next]_vars

\* ------------------------------------------------------------------------
\* Reading the document against the source tree
\* ------------------------------------------------------------------------

\* the node the current export renders (export()'s `node` after the RootNode
\* is skipped)
top_node ==
    IF call.node.kind = "root" THEN call.node.children[1] ELSE call.node

\* self.doc is the document of the current or last export call, and that
\* call was not rejected
DocIsOfCall == call.fn = "export" /\ exc # "TypeError" /\ doc # None

\* the export call has returned normally
Completed == DocIsOfCall /\ pc = "idle" /\ exc = "none"

\* the export call was aborted by a fatal error
Aborted == DocIsOfCall /\ pc = "idle" /\ exc = "RDLCompileError"

ElIndices == 1..Len(doc.els)

Blocks == { i \in ElIndices : doc.els[i].tag = "addressBlock" }

Registers == { i \in ElIndices : doc.els[i].tag = "register" }

Containers == { i \in ElIndices : doc.els[i].tag \in {"addressBlock", "registerFile"} }

\* the element that encloses element i (0 for an addressBlock)
ParentEl(i) ==
    IF doc.els[i].depth = 1 THEN 0
    ELSE CHOOSE k \in 1..(i - 1) :
           /\ doc.els[k].depth = doc.els[i].depth - 1
           /\ \A m \in (k + 1)..(i - 1) : doc.els[m].depth >= doc.els[i].depth

\* the elements directly inside element i, in document order
ChildEls(i) ==
    LET IsChild(j) == j > i /\ ParentEl(j) = i
    IN  SelectSeq([j \in 1..Len(doc.els) |-> j], IsChild)

\* the addressBlock that encloses element i (i itself for an addressBlock)
RECURSIVE BlockOf(_)
BlockOf(i) == IF doc.els[i].depth = 1 THEN i ELSE BlockOf(ParentEl(i))

\* the names of the elements from the addressBlock down to element i
RECURSIVE ElPath(_)
ElPath(i) ==
    IF doc.els[i].depth = 1 THEN << doc.els[i].name >>
    ELSE Append(ElPath(ParentEl(i)), doc.els[i].name)

ChildNamed(node, n) ==
    CHOOSE c \in { node.children[k] : k \in 1..Len(node.children) } : c.inst_name = n

RECURSIVE Descend(_, _)
Descend(node, names) ==
    IF names = << >> THEN node
    ELSE Descend(ChildNamed(node, Head(names)), Tail(names))

\* the source node element i was rendered from: an addressBlock named after
\* the top node is the top node itself, any other is a child of the top node
SourceOf(i) ==
    LET p == ElPath(i)
    IN  IF p[1] = top_node.inst_name THEN Descend(top_node, Tail(p))
        ELSE Descend(top_node, p)

\* element i is still being rendered: a call on the stack is building it
Open(i) == \E k \in 1..Len(stack) : stack[k].fn # "export" /\ stack[k].at = i

\* rendering of element i has finished: its call has returned
Closed(i) == ~Open(i) /\ ~Aborted

\* the maximum of a non-empty set of numbers
Max(S) == CHOOSE m \in S : \A x \in S : x <= m

\* the regwidths of all registers anywhere beneath a node
RECURSIVE AllRegWidths(_)
AllRegWidths(node) ==
    UNION { IF IsRegNode(node.children[k]) THEN { node.children[k].regwidth }
            ELSE AllRegWidths(node.children[k]) : k \in 1..Len(node.children) }

\* the regwidths of the registers beneath a node that are not inside a mem
\* nested beneath it
RECURSIVE RenderedRegWidths(_)
RenderedRegWidths(node) ==
    UNION { IF IsRegNode(node.children[k]) THEN { node.children[k].regwidth }
            ELSE IF IsRegfileLike(node.children[k])
                 THEN RenderedRegWidths(node.children[k])
                 ELSE {} : k \in 1..Len(node.children) }

\* ------------------------------------------------------------------------
\* C1: the width of an address block
\* ------------------------------------------------------------------------

\* the width the claim names for an addressBlock rendered from `node`, given
\* the register widths that count
WidthFrom(widths, node) ==
    IF widths # {} THEN Max(widths)
    ELSE IF IsMemNode(node) THEN node.memwidth
    ELSE 32

\* C1 as stated: every address block that has been rendered has exactly one
\* width value, the maximum regwidth over all registers anywhere beneath its
\* source node, else the memwidth of a mem, else 32.
C1_WidthOverAllRegisters ==
    DocIsOfCall =>
        \A i \in Blocks :
            /\ Closed(i) =>
                 doc.els[i].width = Some(WidthFrom(AllRegWidths(SourceOf(i)), SourceOf(i)))
            /\ Open(i) => doc.els[i].width = None

\* C1 (amended): every address block that has been rendered has exactly one
\* width value, the maximum regwidth over the registers rendered beneath it
\* (those beneath its source node that are not inside a nested mem, which is
\* discarded), else the memwidth of a mem, else 32; the width element is
\* empty while the block is being rendered.
C1_WidthOverRenderedRegisters ==
    DocIsOfCall =>
        \A i \in Blocks :
            /\ Closed(i) =>
                 doc.els[i].width =
                     Some(WidthFrom(RenderedRegWidths(SourceOf(i)), SourceOf(i)))
            /\ Open(i) => doc.els[i].width = None

\* an export has completed with a block whose source holds a register inside
\* a nested mem that is wider than every register rendered in the block
C1_Witness ==
    /\ Completed
    /\ \E i \in Blocks :
         /\ RenderedRegWidths(SourceOf(i)) # {}
         /\ AllRegWidths(SourceOf(i)) # RenderedRegWidths(SourceOf(i))
         /\ doc.els[i].width = Some(16)

\* ------------------------------------------------------------------------
\* C2: register sizes against the width of their address block
\* ------------------------------------------------------------------------

\* the registers rendered (completely) inside addressBlock i
RegistersOf(i) == { j \in Registers : BlockOf(j) = i /\ doc.els[j].size # None }

\* C2 as stated: every register rendered beneath an address block reports a
\* size equal to the block's resolved width.
C2_SizesEqualWidth ==
    DocIsOfCall =>
        \A i \in Blocks :
            doc.els[i].width # None =>
                \A j \in RegistersOf(i) : doc.els[j].size = doc.els[i].width

\* C2 (amended): every register rendered beneath an address block reports
\* its own regwidth as its size; that size is at most the block's resolved
\* width, and when the block holds a register at least one of them reports
\* exactly the resolved width.
C2_SizesWithinWidth ==
    DocIsOfCall =>
        /\ \A j \in Registers :
             doc.els[j].size # None => doc.els[j].size = Some(SourceOf(j).regwidth)
        /\ \A i \in Blocks :
             doc.els[i].width # None =>
                /\ \A j \in RegistersOf(i) : doc.els[j].size[1] <= doc.els[i].width[1]
                /\ RegistersOf(i) # {} =>
                     \E j \in RegistersOf(i) : doc.els[j].size = doc.els[i].width

\* an export has completed with a block that holds a narrower register
\* before a wider one
C2_Witness ==
    /\ Completed
    /\ \E i \in Blocks : \E j \in RegistersOf(i) : \E k \in RegistersOf(i) :
         /\ j < k
         /\ doc.els[j].size = Some(16)
         /\ doc.els[k].size = Some(64)
         /\ doc.els[i].width = Some(64)

\* ------------------------------------------------------------------------
\* C3: explode or wrap
\* ------------------------------------------------------------------------

IsPrefix(s, t) == Len(s) <= Len(t) /\ s = SubSeq(t, 1, Len(s))

\* the names of the addressBlocks of the document, in document order
BlockNames ==
    LET IsBlock(i) == doc.els[i].tag = "addressBlock"
        blocks == SelectSeq([i \in 1..Len(doc.els) |-> i], IsBlock)
    IN  [k \in 1..Len(blocks) |-> doc.els[blocks[k]].name]

AddressableChildren(node) == SelectSeq(node.children, IsAddressableNode)

\* the condition the claim gives for exploding the top node
ExplodeCondition(node) ==
    /\ IsAddrmapNode(node)
    /\ AddressableChildren(node) # << >>
    /\ \A k \in 1..Len(AddressableChildren(node)) :
         LET c == AddressableChildren(node)[k]
         IN  (IsAddrmapNode(c) \/ IsMemNode(c)) /\ ~is_array(c)

\* the exploded rendering: the memoryMap carries the top node's identity, and
\* there is one addressBlock per addressable child, in source order, named
\* after the child
ExplodedRendering ==
    LET kids == AddressableChildren(top_node)
        names == [k \in 1..Len(kids) |-> kids[k].inst_name]
    IN  /\ doc.memoryMap = [name |-> top_node.inst_name, displayName |-> top_node.name]
        /\ IsPrefix(BlockNames, names)
        /\ Completed => BlockNames = names

\* the wrapped rendering: the memoryMap carries the top node's name only, and
\* its one addressBlock renders the top node
WrappedRendering ==
    /\ doc.memoryMap = [name |-> top_node.inst_name, displayName |-> None]
    /\ IsPrefix(BlockNames, << top_node.inst_name >>)
    /\ Completed => BlockNames = << top_node.inst_name >>

\* child c of the top node is nested in the one addressBlock as a register or
\* registerFile with its dim elements
NestedWithDim(c) ==
    \E j \in ElIndices :
        /\ doc.els[j].depth = 2
        /\ doc.els[j].name = c.inst_name
        /\ doc.els[j].tag = IF IsRegNode(c) THEN "register" ELSE "registerFile"
        /\ doc.els[j].dim = c.array_dimensions

\* C3 as stated: the top node is exploded if and only if it is an addrmap
\* with at least one addressable child, all of them non-arrayed addrmaps or
\* mems; exploded, there is one addressBlock per addressable child; wrapped,
\* there is one addressBlock for the top node, and every arrayed child is
\* nested in it as a register or registerFile with dim elements.
C3_ExplodeOrWrapAllArrays ==
    DocIsOfCall =>
        IF ExplodeCondition(top_node) THEN ExplodedRendering
        ELSE /\ WrappedRendering
             /\ Completed =>
                  \A k \in 1..Len(AddressableChildren(top_node)) :
                      LET c == AddressableChildren(top_node)[k]
                      IN  is_array(c) => NestedWithDim(c)

\* C3 (amended): as stated, except that in the wrapped rendering it is the
\* arrayed register, addrmap and regfile children that are nested with dim
\* elements; an arrayed mem child is not rendered at all.
C3_ExplodeOrWrap ==
    DocIsOfCall =>
        IF ExplodeCondition(top_node) THEN ExplodedRendering
        ELSE /\ WrappedRendering
             /\ Completed =>
                  \A k \in 1..Len(AddressableChildren(top_node)) :
                      LET c == AddressableChildren(top_node)[k]
                      IN  /\ is_array(c) /\ ~IsMemNode(c) => NestedWithDim(c)
                          /\ IsMemNode(c) =>
                               \A j \in ElIndices :
                                   doc.els[j].depth = 2 => doc.els[j].name # c.inst_name

\* an export has completed that wrapped a top node with an arrayed regfile
\* (or addrmap) child next to a non-arrayed mem child
C3_Witness ==
    /\ Completed
    /\ ~ExplodeCondition(top_node)
    /\ Len(top_node.children) = 2
    /\ IsMemNode(top_node.children[1]) /\ ~is_array(top_node.children[1])
    /\ IsRegfileLike(top_node.children[2]) /\ is_array(top_node.children[2])
    /\ NestedWithDim(top_node.children[2])

\* an export has completed that exploded a top node into the addressBlocks
\* of an addrmap child and a mem child
C3_WitnessExploded ==
    /\ Completed
    /\ ExplodeCondition(top_node)
    /\ Len(top_node.children) = 2
    /\ IsAddrmapNode(top_node.children[1])
    /\ IsMemNode(top_node.children[2])
    /\ BlockNames = << "a", "b" >>

\* ------------------------------------------------------------------------
\* C4: the order of the children of a container
\* ------------------------------------------------------------------------

\* the tag and name of the element a register or regfile-like child becomes
Emitted(c) ==
    [tag |-> IF IsRegNode(c) THEN "register" ELSE "registerFile", name |-> c.inst_name]

\* what the claim says a container rendered from `node` holds, in order
ExpectedChildren(node) ==
    LET IsRf(c) == c.kind \in {"addrmap", "regfile"}
        IsR(c) == c.kind = "reg"
        IsEither(c) == IsR(c) \/ IsRf(c)
        kids == IF standard = IEEE_1685_2014
                THEN SelectSeq(node.children, IsEither)
                ELSE SelectSeq(node.children, IsR) \o SelectSeq(node.children, IsRf)
    IN  [k \in 1..Len(kids) |-> Emitted(kids[k])]

\* the tags and names of the elements directly inside element i, in order
EmittedChildren(i) ==
    [k \in 1..Len(ChildEls(i)) |->
        [tag |-> doc.els[ChildEls(i)[k]].tag, name |-> doc.els[ChildEls(i)[k]].name]]

\* C4: in every container (addressBlock or registerFile, at any depth) the
\* elements emitted so far are the first of the expected ones, in the expected
\* order: source order in the 2014 standard, all registers and then all
\* regfile-like children in the 2009 standard; once the container has been
\* rendered every expected child is there exactly once; and in the 2009
\* standard no register follows a registerFile in the same container.
C4_ChildOrder ==
    DocIsOfCall =>
        \A i \in Containers :
            /\ IsPrefix(EmittedChildren(i), ExpectedChildren(SourceOf(i)))
            /\ Closed(i) => EmittedChildren(i) = ExpectedChildren(SourceOf(i))
            /\ standard = IEEE_1685_2009 =>
                 \A k \in 1..Len(EmittedChildren(i)) : \A m \in 1..Len(EmittedChildren(i)) :
                     k < m /\ EmittedChildren(i)[k].tag = "registerFile"
                         => EmittedChildren(i)[m].tag # "register"

\* an export in the 2009 standard has completed with a container whose
\* source holds a register, a regfile-like node and a register, in that
\* order, and whose elements are the two registers and then the registerFile
C4_Witness ==
    /\ Completed
    /\ standard = IEEE_1685_2009
    /\ \E i \in Containers :
         LET kids == SourceOf(i).children
         IN  /\ Len(kids) = 3
             /\ IsRegNode(kids[1]) /\ IsRegfileLike(kids[2]) /\ IsRegNode(kids[3])
             /\ EmittedChildren(i) = << Emitted(kids[1]), Emitted(kids[3]), Emitted(kids[2]) >>

\* ------------------------------------------------------------------------
\* C5: where resets are rendered
\* ------------------------------------------------------------------------

\* the registers add_register has rendered in full
RenderedRegisters == { i \in Registers : doc.els[i].size # None }

DeclaresReset(field) == field.reset # None

\* C5: in the 2009 standard no field element carries a reset and a register
\* element carries a reset exactly when one of its fields declares one; in
\* the 2014 standard no register element carries a reset and a field element
\* carries a reset exactly when its field declares one.
C5_ResetPerStandard ==
    DocIsOfCall =>
        \A i \in RenderedRegisters :
            LET el == doc.els[i]
                src == SourceOf(i)
            IN  /\ Len(el.fields) = Len(src.fields)
                /\ standard = IEEE_1685_2009 =>
                     /\ \A k \in 1..Len(el.fields) : el.fields[k].reset = None
                     /\ el.reset # None <=>
                          \E k \in 1..Len(src.fields) : DeclaresReset(src.fields[k])
                /\ standard = IEEE_1685_2014 =>
                     /\ el.reset = None
                     /\ \A k \in 1..Len(el.fields) :
                          el.fields[k].reset # None <=> DeclaresReset(src.fields[k])

\* an export in the 2009 standard has completed with a register that carries
\* a register-level reset, one of its two fields declaring a reset and the
\* other not
C5_Witness ==
    /\ Completed
    /\ standard = IEEE_1685_2009
    /\ \E i \in RenderedRegisters :
         /\ doc.els[i].reset # None
         /\ Len(SourceOf(i).fields) = 2
         /\ DeclaresReset(SourceOf(i).fields[1])
         /\ ~DeclaresReset(SourceOf(i).fields[2])

\* ------------------------------------------------------------------------
\* C6: the aggregated register reset of the 2009 standard
\* ------------------------------------------------------------------------

\* the number whose set bits are the positions in S
RECURSIVE Weight(_)
Weight(S) ==
    IF S = {} THEN 0
    ELSE LET b == CHOOSE x \in S : TRUE IN Pow2(b) + Weight(S \ {b})

\* whether bit b of v is set
Bit(v, b) == (v \div Pow2(b)) % 2 = 1

FieldPositions(f) == f.lsb..(f.lsb + f.width - 1)

ResetFields(node) ==
    { k \in 1..Len(node.fields) : DeclaresReset(node.fields[k]) }

\* the bit positions covered by a field that declares a reset
MaskBits(node) ==
    UNION { FieldPositions(node.fields[k]) : k \in ResetFields(node) }

\* the bit positions at which the shifted reset of some field has a bit set
ValueBits(node) ==
    UNION { { b \in FieldPositions(node.fields[k]) :
                Bit(node.fields[k].reset[1], b - node.fields[k].lsb) } :
            k \in ResetFields(node) }

\* (value >> lsb) & ((1 << width) - 1)
Extract(value, f) == BitAnd(Shr(value, f.lsb), Pow2(f.width) - 1)

\* the registers of a 2009 document that carry a register-level reset
ResetRegisters ==
    { i \in RenderedRegisters : standard = IEEE_1685_2009 /\ doc.els[i].reset # None }

\* what C6 says of the mask and the value, up to their reading at a field
ResetIsTheOr(i) ==
    LET src == SourceOf(i)
        value == HexValue(doc.els[i].reset[1].value.digits)
        mask == HexValue(doc.els[i].reset[1].mask.digits)
    IN  /\ doc.els[i].reset[1].value.prefix = "0x"
        /\ doc.els[i].reset[1].mask.prefix = "0x"
        /\ mask = Weight(MaskBits(src))
        /\ value = Weight(ValueBits(src))
        /\ BitAnd(value, mask) = value

\* C6 as stated: the mask is the OR of the shifted width masks of exactly
\* the fields that declare a reset, the value the OR of their shifted
\* resets, the value has no bit outside the mask, and the value read at the
\* position of any field that declares a reset is that field's reset.
C6_LosslessAtEveryField ==
    DocIsOfCall =>
        \A i \in ResetRegisters :
            /\ ResetIsTheOr(i)
            /\ \A k \in ResetFields(SourceOf(i)) :
                 Extract(HexValue(doc.els[i].reset[1].value.digits), SourceOf(i).fields[k])
                     = SourceOf(i).fields[k].reset[1]

\* C6 (amended): mask and value as stated; the value read at the position of
\* a field that declares a reset is that field's reset when the field shares
\* no bit with another field that declares a reset, and holds at least the
\* set bits of that field's reset otherwise.
C6_LosslessWithoutOverlap ==
    DocIsOfCall =>
        \A i \in ResetRegisters :
            /\ ResetIsTheOr(i)
            /\ \A k \in ResetFields(SourceOf(i)) :
                 LET f == SourceOf(i).fields[k]
                     read == Extract(HexValue(doc.els[i].reset[1].value.digits), f)
                     alone == \A m \in ResetFields(SourceOf(i)) \ {k} :
                                  ~Overlap(f, SourceOf(i).fields[m])
                 IN  /\ BitAnd(read, f.reset[1]) = f.reset[1]
                     /\ alone => read = f.reset[1]

\* an export in the 2009 standard has completed with a register of two
\* fields that do not overlap and declare non-zero resets, the second above
\* bit 0, and the register carries the aggregated reset
C6_Witness ==
    /\ Completed
    /\ \E i \in ResetRegisters :
         LET fs == SourceOf(i).fields
         IN  /\ Len(fs) = 2
             /\ ResetFields(SourceOf(i)) = {1, 2}
             /\ ~Overlap(fs[1], fs[2])
             /\ fs[1].reset[1] > 0 /\ fs[2].reset[1] > 0
             /\ HexValue(doc.els[i].reset[1].value.digits)
                    = fs[1].reset[1] * Pow2(fs[1].lsb) + fs[2].reset[1] * Pow2(fs[2].lsb)

\* ------------------------------------------------------------------------
\* C7: the stride of a register array
\* ------------------------------------------------------------------------

\* an arrayed register whose stride is not its regwidth / 8 bytes
BadStride(node) ==
    node.kind = "reg" /\ node.array_dimensions # << >>
        /\ node.array_stride * 8 # node.regwidth

\* the path of the source node of element i, from the top node
FullPath(i) ==
    IF ElPath(i)[1] = top_node.inst_name THEN ElPath(i)
    ELSE << top_node.inst_name >> \o ElPath(i)

FatalMessages == { k \in 1..Len(msg) : msg[k].severity = "fatal" }

\* C7: once add_register has reached an arrayed register whose stride is not
\* regwidth / 8, the export has ended with the fatal error of the message
\* sink, nothing was rendered after that register and the file is not
\* written, whatever was rendered before; and an export ends that way only at
\* such a register, never at a register that is not arrayed or whose stride
\* is its byte size.
C7_BadStrideIsFatal ==
    DocIsOfCall =>
        /\ \A i \in Registers :
             BadStride(SourceOf(i)) =>
                 /\ exc = "RDLCompileError" /\ pc = "idle"
                 /\ i = Len(doc.els)
                 /\ file = None
        /\ exc = "RDLCompileError" =>
             /\ doc.els # << >>
             /\ doc.els[Len(doc.els)].tag = "register"
             /\ BadStride(SourceOf(Len(doc.els)))
             /\ file = None
             /\ msg # << >>
             /\ msg[Len(msg)] = Fatal("stride", FullPath(Len(doc.els)))
        /\ exc # "RDLCompileError" => FatalMessages = {}
        /\ Cardinality(FatalMessages) <= 1

\* an export was aborted at a register array of stride 8 and regwidth 32
\* inside a registerFile, after a register of the enclosing addressBlock
\* had been rendered
C7_Witness ==
    /\ Aborted
    /\ Len(doc.els) >= 4
    /\ doc.els[Len(doc.els)].depth = 3
    /\ \E i \in RenderedRegisters : doc.els[i].depth = 2
    /\ SourceOf(Len(doc.els)).array_stride = 8
    /\ SourceOf(Len(doc.els)).regwidth = 32
    /\ file = None

\* ------------------------------------------------------------------------
\* C8: a mem nested in a container
\* ------------------------------------------------------------------------

ChildrenOfKind(node, kinds) ==
    { node.children[k] : k \in { m \in 1..Len(node.children) :
                                    node.children[m].kind \in kinds } }

\* the warnings about the nested mem at path p
MemWarnings(p) == { k \in 1..Len(msg) : msg[k] = Warning("nested mem", p) }

ChildElNames(i) == { doc.els[ChildEls(i)[k]].name : k \in 1..Len(ChildEls(i)) }

\* C8: in both standards, a mem that is a child of a rendered container has
\* no element in the document; once the container has been rendered there is
\* one warning about that mem, and every register and regfile-like sibling
\* has its element; the export is not ended by it: an export ends early only
\* with a fatal error, and an export that has returned has written the
\* document to the file.
C8_NestedMemDiscarded ==
    DocIsOfCall =>
        /\ \A i \in Containers :
             \A c \in ChildrenOfKind(SourceOf(i), {"mem"}) :
                 /\ c.inst_name \notin ChildElNames(i)
                 /\ Cardinality(MemWarnings(Append(FullPath(i), c.inst_name))) <= 1
                 /\ Closed(i) =>
                      /\ Cardinality(MemWarnings(Append(FullPath(i), c.inst_name))) = 1
                      /\ \A d \in ChildrenOfKind(SourceOf(i), {"reg", "addrmap", "regfile"}) :
                             d.inst_name \in ChildElNames(i)
        /\ Completed => file = Some(doc)
        /\ pc = "idle" /\ exc # "none" => FatalMessages # {}

\* an export has completed and written the file, with a container whose
\* source holds a register, a mem and a register, in that order: both
\* registers are rendered and the mem is warned about
C8_Witness ==
    /\ Completed
    /\ file = Some(doc)
    /\ \E i \in Containers :
         LET kids == SourceOf(i).children
         IN  /\ Len(kids) = 3
             /\ kids[1].kind = "reg" /\ kids[2].kind = "mem" /\ kids[3].kind = "reg"
             /\ ChildElNames(i) = { kids[1].inst_name, kids[3].inst_name }
             /\ MemWarnings(Append(FullPath(i), kids[2].inst_name)) # {}

\* ------------------------------------------------------------------------
\* C9: calls that are rejected
\* ------------------------------------------------------------------------

\* the current or last call was given what the exporter does not accept: a
\* stray keyword argument, or (export) a node that is neither the RootNode,
\* an addrmap nor a mem
BadCall ==
    \/ call.fn = "__init__" /\ call.kwargs.other # {}
    \/ /\ call.fn = "export"
       /\ \/ call.kwargs.other # {}
          \/ call.node.kind \notin {"root", "addrmap", "mem"}

\* C9: a call with a stray keyword argument, or an export of a node that is
\* neither the RootNode, an addrmap nor a mem, ends with a TypeError, and
\* the step that makes it starts no traversal and leaves the message sink,
\* the document and the file as they were; no other call ends with a
\* TypeError.
C9_RejectedBeforeTraversal ==
    [][ /\ BadCall' <=> exc' = "TypeError"
        /\ BadCall' =>
             /\ msg' = msg
             /\ doc' = doc
             /\ file' = file
             /\ stack' = << >>
             /\ max_width' = max_width
             /\ pc' = pc ]_vars

\* an export of a register node was rejected on an exporter whose earlier
\* exports had left a document, a written file and messages
C9_Witness ==
    /\ exc = "TypeError"
    /\ call.fn = "export"
    /\ call.node.kind = "reg"
    /\ doc # None
    /\ file # None
    /\ msg # << >>

\* ------------------------------------------------------------------------
\* C10: exports on one exporter do not depend on earlier ones
\* ------------------------------------------------------------------------

\* C10: two exports of the same tree with the same keyword arguments on one
\* exporter write the same document (or both write none), whatever was
\* exported, or aborted, in between.
C10_SameCallSameOutput ==
    \A j \in 1..Len(results) : \A k \in 1..Len(results) :
        results[j].node = results[k].node /\ results[j].kwargs = results[k].kwargs
            => results[j].out = results[k].out

\* the first and third export on an exporter were of the same tree, a map
\* that is exploded into the addressBlock of a mem without registers, and
\* wrote the same document; the second export, of a map with a register
\* array of a wrong stride, was aborted
C10_Witness ==
    /\ Len(results) = 3
    /\ results[1].node = results[3].node
    /\ results[1].kwargs = results[3].kwargs
    /\ Len(results[1].node.children) = 1
    /\ results[1].node.children[1].kind = "mem"
    /\ results[1].out # None
    /\ results[1].out = results[3].out
    /\ results[2].node.kind = "addrmap"
    /\ results[2].node.children = << [RegArrayBad EXCEPT !.inst_name = "a"] >>
    /\ results[2].out = None
    /\ exc = "none"

\* ------------------------------------------------------------------------
\* C11: the width accumulator belongs to one address block
\* ------------------------------------------------------------------------

\* the width of an addressBlock rendered from `node` when no register
\* reaches the accumulator
DefaultWidth(node) == IF node.kind = "mem" THEN node.memwidth ELSE 32

\* the addressBlocks whose width has been resolved
ResolvedBlocks == { i \in Blocks : doc.els[i].width # None }

\* the step renders the start of an addressBlock
BlockStarted ==
    /\ doc # None /\ doc' # None
    /\ Len(doc'.els) = Len(doc.els) + 1
    /\ doc'.els[Len(doc'.els)].tag = "addressBlock"

\* the resolved width of every addressBlock comes from the block's own
\* subtree: it is the default of the block when the subtree holds no
\* register, and otherwise the regwidth of one of its registers or that
\* default; it is at most the widest of its own registers, or the default
WidthFromOwnSubtree ==
    DocIsOfCall =>
        \A i \in ResolvedBlocks :
            LET src == SourceOf(i)
                own == AllRegWidths(src)
                width == doc.els[i].width[1]
            IN  /\ own = {} => width = DefaultWidth(src)
                /\ width \in own \cup { DefaultWidth(src) }
                /\ width <= Max(own \cup { DefaultWidth(src) })

\* C11: every step that starts an addressBlock leaves the accumulator
\* empty, and the width resolved for an addressBlock comes from the block's
\* own subtree only: without registers it is the memwidth or 32 whatever
\* earlier sibling blocks held, and a wider register of an earlier sibling
\* never raises it.
C11_AccumulatorPerBlock ==
    [][ /\ BlockStarted => max_width' = None
        /\ WidthFromOwnSubtree' ]_vars

\* an export has completed that exploded a map into two addressBlocks: the
\* first holds a register of 64 bits and has width 64, the second is a mem
\* of memwidth 16 without registers and has width 16
C11_Witness ==
    /\ Completed
    /\ explode(top_node)
    /\ Cardinality(Blocks) = 2
    /\ \E i \in Blocks : \E j \in Blocks :
         /\ i < j
         /\ 64 \in AllRegWidths(SourceOf(i))
         /\ doc.els[i].width = Some(64)
         /\ SourceOf(j).kind = "mem"
         /\ SourceOf(j).children = << >>
         /\ SourceOf(j).memwidth = 16
         /\ doc.els[j].width = Some(16)

\* ------------------------------------------------------------------------
\* C12: nodes that are not present
\* ------------------------------------------------------------------------

\* the isPresent marker the claim gives the element of a node or field
ExpectedMarker(n) ==
    IF standard = IEEE_1685_2014 /\ n.ispresent = FALSE THEN << "0" >> ELSE << >>

AbsentKids(node, kinds) == { c \in ChildrenOfKind(node, kinds) : ~c.ispresent }

\* C12: in both standards every addressBlock, registerFile, register and
\* field element carries the isPresent marker "0" exactly when its node is
\* not present and the standard is 2014, so that a 2009 document holds no
\* marker; and nodes that are not present are rendered like the others, at
\* their source position: the fields of a register are its source fields in
\* order, a rendered container holds every register and regfile-like child
\* in the order of its standard, and a completed export that exploded the
\* top node holds the addressBlocks of all its addressable children.
C12_AbsenceIsAFlag ==
    DocIsOfCall =>
        /\ \A i \in ElIndices : doc.els[i].isPresent = ExpectedMarker(SourceOf(i))
        /\ \A i \in RenderedRegisters :
             /\ Len(doc.els[i].fields) = Len(SourceOf(i).fields)
             /\ \A k \in 1..Len(doc.els[i].fields) :
                  /\ doc.els[i].fields[k].name = SourceOf(i).fields[k].inst_name
                  /\ doc.els[i].fields[k].isPresent = ExpectedMarker(SourceOf(i).fields[k])
        /\ \A i \in Containers :
             Closed(i) =>
                 /\ \A c \in AbsentKids(SourceOf(i), {"reg", "addrmap", "regfile"}) :
                        c.inst_name \in ChildElNames(i)
                 /\ EmittedChildren(i) = ExpectedChildren(SourceOf(i))
        /\ Completed /\ ExplodeCondition(top_node) =>
             \A c \in AbsentKids(top_node, {"addrmap", "mem"}) :
                 \E i \in Blocks : doc.els[i].name = c.inst_name
        /\ standard = IEEE_1685_2009 =>
             /\ \A i \in ElIndices : doc.els[i].isPresent = << >>
             /\ \A i \in Registers : \A k \in 1..Len(doc.els[i].fields) :
                    doc.els[i].fields[k].isPresent = << >>

\* an export in the 2014 standard has completed whose document holds an
\* addressBlock of a map that is not present, marked "0", and in it the
\* element of a register that is not present, marked "0", after the element
\* of a register that is present, not marked
C12_Witness ==
    /\ Completed
    /\ standard = IEEE_1685_2014
    /\ \E b \in Blocks :
         /\ ~SourceOf(b).ispresent
         /\ doc.els[b].isPresent = << "0" >>
         /\ \E i \in RenderedRegisters : \E j \in RenderedRegisters :
              /\ i < j
              /\ BlockOf(i) = b /\ BlockOf(j) = b
              /\ SourceOf(i).ispresent /\ doc.els[i].isPresent = << >>
              /\ ~SourceOf(j).ispresent /\ doc.els[j].isPresent = << "0" >>

\* an export in the 2009 standard has completed whose document holds the
\* element of a register that is not present, without a marker
C12_Witness2009 ==
    /\ Completed
    /\ standard = IEEE_1685_2009
    /\ \E j \in RenderedRegisters :
         ~SourceOf(j).ispresent /\ doc.els[j].isPresent = << >>

\* an export in the 2014 standard has completed whose document holds, in a
\* register that is present, a field that is not present, marked "0"
C12_WitnessField ==
    /\ Completed
    /\ standard = IEEE_1685_2014
    /\ \E j \in RenderedRegisters : \E k \in 1..Len(doc.els[j].fields) :
         /\ SourceOf(j).ispresent
         /\ ~SourceOf(j).fields[k].ispresent
         /\ doc.els[j].fields[k].isPresent = << "0" >>

====
